---- MODULE Spec2Model ----
(***************************************************************************)
(* Model of the ENS MCP server (src/ens_mcp_server.py): the stdio message  *)
(* loop ENSMCPServer.run_stdio, the router handle_message /                *)
(* handle_tool_call and the four domain operations, with the web3 / ENS    *)
(* collaborator as an environment that answers each call with a return     *)
(* value or an exception.                                                  *)
(*                                                                         *)
(* Python values are tagged tuples:                                        *)
(*   <<"null">>  None          <<"bool", b>>   True / False                *)
(*   <<"num", n>>  int         <<"str", s>>    str                         *)
(*   <<"list", q>> list        <<"obj", f>>    dict (f: key -> value)      *)
(*   <<"contract", a>>  a resolver contract object whose .address is a     *)
(*   <<"handle", h>>    the Web3 / ENS client object                       *)
(* A Python exception is a record [type, msg]; str(e) is its msg.          *)
(***************************************************************************)
EXTENDS Integers, Sequences, FiniteSets, TLC

VARIABLES
    pc,         \* where the process is: "start", "reading", "handling", "stopped", "aborted"
    w3,         \* self.w3: None or the Web3 handle
    ens,        \* self.ens: None or the ENS handle
    remaining,  \* lines still to come on stdin before end-of-stream
    line,       \* the line returned by the last readline()
    nread,      \* number of lines read so far (end-of-stream not counted)
    output,     \* stdout: for each response written, the serial number of the line it answers
    last,       \* the last loop iteration: the line, the collaborator calls made, what was written
    stop,       \* why the loop ended: "none", "eof", "error", "interrupt"
    interrupt,  \* "pending" when the main task is cancelled but has not reached an await
    memo        \* the first loop iteration of the run, where a specification keeps it

vars == <<pc, w3, ens, remaining, line, nread, output, last, stop, interrupt, memo>>

(***************************************************************************)
(* Bounds                                                                  *)
(***************************************************************************)
\* longest input stream (number of lines before end-of-stream)
MaxLines == 2

(***************************************************************************)
(* Python values                                                           *)
(***************************************************************************)
None == <<"null">>
Bool(b) == <<"bool", b>>
Num(n) == <<"num", n>>
Str(s) == <<"str", s>>
EmptyList == <<"list", <<>>>>
Obj(f) == <<"obj", f>>
EmptyDict == <<"obj", <<>>>>
Contract(a) == <<"contract", a>>
Handle(h) == <<"handle", h>>

IsStr(v) == v[1] = "str"
IsDict(v) == v[1] = "obj"

Exc(type, msg) == [type |-> type, msg |-> msg]

\* type(v).__name__
type_name(v) ==
    CASE v[1] = "null" -> "NoneType"
      [] v[1] = "bool" -> "bool"
      [] v[1] = "num" -> "int"
      [] v[1] = "str" -> "str"
      [] v[1] = "list" -> "list"
      [] v[1] = "obj" -> "dict"
      [] v[1] = "contract" -> "Contract"

\* bool(v): Python truthiness, as used by "if not x"
py_truthy(v) ==
    CASE v[1] = "null" -> FALSE
      [] v[1] = "bool" -> v[2]
      [] v[1] = "num" -> v[2] # 0
      [] v[1] = "str" -> v[2] # ""
      [] v[1] = "list" -> Len(v[2]) > 0
      [] v[1] = "obj" -> DOMAIN v[2] # {}
      [] v[1] = "contract" -> TRUE
      [] v[1] = "handle" -> TRUE

\* py_str formatting None the way JSON spells it
py_str_JsonNull(v) ==
    CASE v[1] = "null" -> "null"
      [] v[1] = "bool" -> IF v[2] THEN "True" ELSE "False"
      [] v[1] = "num" -> ToString(v[2])
      [] v[1] = "str" -> v[2]
      [] v[1] = "list" /\ v[2] = <<>> -> "[]"
      [] v[1] = "obj" /\ DOMAIN v[2] = {} -> "{}"

\* str(v) as an f-string formats it (containers: the empty ones only)
py_str(v) ==
    CASE v[1] = "null" -> "None"
      [] v[1] = "bool" -> IF v[2] THEN "True" ELSE "False"
      [] v[1] = "num" -> ToString(v[2])
      [] v[1] = "str" -> v[2]
      [] v[1] = "list" /\ v[2] = <<>> -> "[]"
      [] v[1] = "obj" /\ DOMAIN v[2] = {} -> "{}"

\* d.get(k, default) on a dict d
dict_get(d, k, default) == IF k \in DOMAIN d[2] THEN d[2][k] ELSE default

\* the AttributeError of v.<attr> on a value that has no such attribute
AttributeError(v, attr) ==
    Exc("AttributeError", "'" \o type_name(v) \o "' object has no attribute '" \o attr \o "'")

\* SubscriptError whose KeyError prints the key without quotes
SubscriptError_BareKey(v, k) ==
    CASE v[1] = "obj" -> Exc("KeyError", k)
      [] v[1] = "list" -> Exc("TypeError", "list indices must be integers or slices, not str")
      [] v[1] = "str" -> Exc("TypeError", "string indices must be integers")
      [] OTHER -> Exc("TypeError", "'" \o type_name(v) \o "' object is not subscriptable")

\* the exception of v[k] with a str key k, on a value v that is not a dict
\* holding k
SubscriptError(v, k) ==
    CASE v[1] = "obj" -> Exc("KeyError", "'" \o k \o "'")
      [] v[1] = "list" -> Exc("TypeError", "list indices must be integers or slices, not str")
      [] v[1] = "str" -> Exc("TypeError", "string indices must be integers")
      [] OTHER -> Exc("TypeError", "'" \o type_name(v) \o "' object is not subscriptable")

(***************************************************************************)
(* str.strip() and str.lower()                                             *)
(***************************************************************************)
Whitespace == {" ", "\t", "\n", "\r", "\f"}

lower_char(c) ==
    CASE c = "A" -> "a" [] c = "B" -> "b" [] c = "C" -> "c" [] c = "D" -> "d"
      [] c = "E" -> "e" [] c = "H" -> "h" [] c = "L" -> "l" [] c = "N" -> "n"
      [] c = "R" -> "r" [] c = "S" -> "s" [] c = "T" -> "t" [] c = "U" -> "u"
      [] c = "X" -> "x"
      [] OTHER -> c

\* lower that leaves the case of its argument alone
lower_Identity(s) == s

RECURSIVE lower(_)
lower(s) == IF s = "" THEN "" ELSE lower_char(Head(s)) \o lower(Tail(s))

RECURSIVE lstrip(_)
lstrip(s) == IF s # "" /\ Head(s) \in Whitespace THEN lstrip(Tail(s)) ELSE s

RECURSIVE rstrip(_)
rstrip(s) ==
    IF s # "" /\ SubSeq(s, Len(s), Len(s)) \in Whitespace
    THEN rstrip(SubSeq(s, 1, Len(s) - 1))
    ELSE s

\* strip that removes leading whitespace only
strip_LeadingOnly(s) == lstrip(s)

strip(s) == rstrip(lstrip(s))

(***************************************************************************)
(* The collaborator (web3 / ens).  An outcome of a call is                 *)
(*   <<"ret", v>>  or  <<"raise", e>>.                                     *)
(* A world w gives the collaborator's answer to each method during one     *)
(* request: w.address, w.name, w.owner, w.resolver are outcomes and        *)
(* w.get_text maps a text key to an outcome.                               *)
(***************************************************************************)
Returns(v) == <<"ret", v>>
Raises(e) == <<"raise", e>>

\* one logged collaborator call: method, arguments, outcome
Call(fn, args, out) == [fn |-> fn, args |-> args, out |-> out]

\* what a function call of the model yields: a returned value or a raised
\* exception, and the collaborator calls it made
Ret(v, calls) == [raised |-> FALSE, value |-> v, calls |-> calls]
Raise(e, calls) == [raised |-> TRUE, exc |-> e, calls |-> calls]

\* no exception class is caught by "except ENSException"
ENSExceptionTypes_None == {}

\* except ENSException: the class and its subclasses
ENSExceptionTypes == {"ENSException", "InvalidName"}

\* the exception classes "except Exception" does not catch: they derive
\* from BaseException only
BaseExceptionTypes == {"KeyboardInterrupt"}
IsException(e) == e.type \notin BaseExceptionTypes

\* self.ens.get_text(name, key) in world w
AnswerText(w, key) ==
    IF key \in DOMAIN w.get_text THEN w.get_text[key] ELSE Returns(None)

\* self.w3.is_address(s): 0x-prefixed hex, all lower case, all upper case
\* or correctly checksummed (addresses are shortened to two hex digits)
is_address(s) == s \in {"0xab", "0xAB", "0xAb", "0xcd", "0xCD", "0xcD"}

\* self.w3.to_checksum_address(s) on a well-formed address
to_checksum_address(s) == IF lower(s) = "0xab" THEN "0xAb" ELSE "0xcD"

(***************************************************************************)
(* The domain operations.  Each takes its arguments, the world w that      *)
(* answers its collaborator calls and the value ts that                    *)
(* datetime.utcnow().isoformat() yields, and gives Ret(envelope, calls).   *)
(***************************************************************************)
resolve_ens_name(ens_name, coin_type, w, ts) ==
    IF ~py_truthy(ens)
    THEN Ret(Obj([success |-> Bool(FALSE), error |-> Str("ENS not initialized"),
                  ens_name |-> ens_name, coin_type |-> coin_type]), <<>>)
    ELSE IF ~IsStr(ens_name)
    THEN \* ens_name.strip() raises, caught by "except Exception"
         Ret(Obj([success |-> Bool(FALSE),
                  error |-> Str("Unexpected error: " \o AttributeError(ens_name, "strip").msg),
                  ens_name |-> ens_name, coin_type |-> coin_type]), <<>>)
    ELSE LET name == Str(lower(strip(ens_name[2])))
             out == w.address
             calls == IF coin_type = Num(60)
                      THEN <<Call("address", <<name>>, out)>>
                      ELSE <<Call("address", <<name, coin_type>>, out)>>
         IN  IF out[1] = "raise"
             THEN IF ~IsException(out[2])
                  THEN Raise(out[2], calls)
                  ELSE IF out[2].type \in ENSExceptionTypes
                  THEN Ret(Obj([success |-> Bool(FALSE),
                                error |-> Str("ENS error: " \o out[2].msg),
                                ens_name |-> name, coin_type |-> coin_type]), calls)
                  ELSE Ret(Obj([success |-> Bool(FALSE),
                                error |-> Str("Unexpected error: " \o out[2].msg),
                                ens_name |-> name, coin_type |-> coin_type]), calls)
             ELSE IF ~py_truthy(out[2])
             THEN Ret(Obj([success |-> Bool(FALSE),
                           error |-> Str("No address found for ENS name: " \o name[2]),
                           ens_name |-> name, coin_type |-> coin_type]), calls)
             ELSE Ret(Obj([success |-> Bool(TRUE), ens_name |-> name, address |-> out[2],
                           coin_type |-> coin_type, timestamp |-> Str(ts)]), calls)

\* reverse_resolve_address whose not-found payload carries the trimmed input
reverse_resolve_address_TrimmedInPayload(address, w, ts) ==
    IF ~py_truthy(w3) \/ ~py_truthy(ens)
    THEN Ret(Obj([success |-> Bool(FALSE), error |-> Str("Web3 or ENS not initialized"),
                  address |-> address]), <<>>)
    ELSE IF ~IsStr(address)
    THEN Ret(Obj([success |-> Bool(FALSE),
                  error |-> Str("Error during reverse resolution: "
                                \o AttributeError(address, "strip").msg),
                  address |-> address]), <<>>)
    ELSE LET addr == strip(address[2])
             valid == is_address(addr)
             check == Call("is_address", <<Str(addr)>>, Returns(Bool(valid)))
         IN  IF ~valid
             THEN Ret(Obj([success |-> Bool(FALSE),
                           error |-> Str("Invalid Ethereum address format: " \o addr),
                           address |-> Str(addr)]), <<check>>)
             ELSE LET checksum_address == Str(to_checksum_address(addr))
                      out == w.name
                      calls == <<check,
                                 Call("to_checksum_address", <<Str(addr)>>,
                                      Returns(checksum_address)),
                                 Call("name", <<checksum_address>>, out)>>
                  IN  IF out[1] = "raise"
                      THEN IF ~IsException(out[2])
                           THEN Raise(out[2], calls)
                           ELSE
                           Ret(Obj([success |-> Bool(FALSE),
                                    error |-> Str("Error during reverse resolution: "
                                                  \o out[2].msg),
                                    address |-> Str(addr)]), calls)
                      ELSE IF ~py_truthy(out[2])
                      THEN Ret(Obj([success |-> Bool(FALSE),
                                    error |-> Str("No ENS name found for address: "
                                                  \o addr),
                                    address |-> Str(addr)]), calls)
                      ELSE Ret(Obj([success |-> Bool(TRUE), address |-> checksum_address,
                                    ens_name |-> out[2], timestamp |-> Str(ts)]), calls)

reverse_resolve_address(address, w, ts) ==
    IF ~py_truthy(w3) \/ ~py_truthy(ens)
    THEN Ret(Obj([success |-> Bool(FALSE), error |-> Str("Web3 or ENS not initialized"),
                  address |-> address]), <<>>)
    ELSE IF ~IsStr(address)
    THEN \* address.strip() raises, caught by "except Exception"
         Ret(Obj([success |-> Bool(FALSE),
                  error |-> Str("Error during reverse resolution: "
                                \o AttributeError(address, "strip").msg),
                  address |-> address]), <<>>)
    ELSE LET addr == strip(address[2])
             valid == is_address(addr)
             check == Call("is_address", <<Str(addr)>>, Returns(Bool(valid)))
         IN  IF ~valid
             THEN Ret(Obj([success |-> Bool(FALSE),
                           error |-> Str("Invalid Ethereum address format: " \o addr),
                           address |-> Str(addr)]), <<check>>)
             ELSE LET checksum_address == Str(to_checksum_address(addr))
                      out == w.name
                      calls == <<check,
                                 Call("to_checksum_address", <<Str(addr)>>,
                                      Returns(checksum_address)),
                                 Call("name", <<checksum_address>>, out)>>
                  IN  IF out[1] = "raise"
                      THEN IF ~IsException(out[2])
                           THEN Raise(out[2], calls)
                           ELSE
                           \* the except clause sees the stripped address
                           Ret(Obj([success |-> Bool(FALSE),
                                    error |-> Str("Error during reverse resolution: "
                                                  \o out[2].msg),
                                    address |-> Str(addr)]), calls)
                      ELSE IF ~py_truthy(out[2])
                      THEN Ret(Obj([success |-> Bool(FALSE),
                                    error |-> Str("No ENS name found for address: "
                                                  \o checksum_address[2]),
                                    address |-> checksum_address]), calls)
                      ELSE Ret(Obj([success |-> Bool(TRUE), address |-> checksum_address,
                                    ens_name |-> out[2], timestamp |-> Str(ts)]), calls)

\* get_ens_text_record treating a record without value as a failure, the
\* way resolve_ens_name treats a name without address
get_ens_text_record_EmptyFails(ens_name, key, w, ts) ==
    IF ~py_truthy(ens)
    THEN Ret(Obj([success |-> Bool(FALSE), error |-> Str("ENS not initialized"),
                  ens_name |-> ens_name, key |-> key]), <<>>)
    ELSE IF ~IsStr(ens_name)
    THEN Ret(Obj([success |-> Bool(FALSE),
                  error |-> Str("Error getting text record: "
                                \o AttributeError(ens_name, "strip").msg),
                  ens_name |-> ens_name, key |-> key]), <<>>)
    ELSE LET name == Str(lower(strip(ens_name[2])))
         IN  IF ~IsStr(key)
             THEN Ret(Obj([success |-> Bool(FALSE),
                           error |-> Str("Error getting text record: "
                                         \o AttributeError(key, "strip").msg),
                           ens_name |-> name, key |-> key]), <<>>)
             ELSE LET k == Str(lower(strip(key[2])))
                      out == AnswerText(w, k[2])
                      calls == <<Call("get_text", <<name, k>>, out)>>
                  IN  IF out[1] = "raise"
                      THEN IF ~IsException(out[2])
                           THEN Raise(out[2], calls)
                           ELSE
                           Ret(Obj([success |-> Bool(FALSE),
                                    error |-> Str("Error getting text record: "
                                                  \o out[2].msg),
                                    ens_name |-> name, key |-> k]), calls)
                      ELSE IF ~py_truthy(out[2])
                      THEN Ret(Obj([success |-> Bool(FALSE),
                                    error |-> Str("No text record found for key: "
                                                  \o k[2]),
                                    ens_name |-> name, key |-> k]), calls)
                      ELSE Ret(Obj([success |-> Bool(TRUE), ens_name |-> name, key |-> k,
                                    value |-> out[2], timestamp |-> Str(ts)]), calls)

get_ens_text_record(ens_name, key, w, ts) ==
    IF ~py_truthy(ens)
    THEN Ret(Obj([success |-> Bool(FALSE), error |-> Str("ENS not initialized"),
                  ens_name |-> ens_name, key |-> key]), <<>>)
    ELSE IF ~IsStr(ens_name)
    THEN Ret(Obj([success |-> Bool(FALSE),
                  error |-> Str("Error getting text record: "
                                \o AttributeError(ens_name, "strip").msg),
                  ens_name |-> ens_name, key |-> key]), <<>>)
    ELSE LET name == Str(lower(strip(ens_name[2])))
         IN  IF ~IsStr(key)
             THEN \* ens_name is already rebound to the cleaned name
                  Ret(Obj([success |-> Bool(FALSE),
                           error |-> Str("Error getting text record: "
                                         \o AttributeError(key, "strip").msg),
                           ens_name |-> name, key |-> key]), <<>>)
             ELSE LET k == Str(lower(strip(key[2])))
                      out == AnswerText(w, k[2])
                      calls == <<Call("get_text", <<name, k>>, out)>>
                  IN  IF out[1] = "raise"
                      THEN IF ~IsException(out[2])
                           THEN Raise(out[2], calls)
                           ELSE
                           Ret(Obj([success |-> Bool(FALSE),
                                    error |-> Str("Error getting text record: "
                                                  \o out[2].msg),
                                    ens_name |-> name, key |-> k]), calls)
                      ELSE Ret(Obj([success |-> Bool(TRUE), ens_name |-> name, key |-> k,
                                    value |-> out[2], timestamp |-> Str(ts)]), calls)

\* common_keys of get_ens_info, in the order they are looked up
common_keys == <<"url", "email", "twitter", "github", "discord", "telegram", "description">>

\* get_ens_info without the try block around the owner lookup: an owner
\* lookup that raises fails the whole operation
get_ens_info_OwnerFails(ens_name, w, ts) ==
    IF ~py_truthy(ens)
    THEN Ret(Obj([success |-> Bool(FALSE), error |-> Str("ENS not initialized"),
                  ens_name |-> ens_name]), <<>>)
    ELSE IF ~IsStr(ens_name)
    THEN Ret(Obj([success |-> Bool(FALSE),
                  error |-> Str("Error getting ENS info: "
                                \o AttributeError(ens_name, "strip").msg),
                  ens_name |-> ens_name]), <<>>)
    ELSE LET name == Str(lower(strip(ens_name[2])))
             address == IF w.address[1] = "raise" THEN None ELSE w.address[2]
             owner == w.owner[2]
             resolver == IF w.resolver[1] = "raise" THEN None
                         ELSE IF py_truthy(w.resolver[2]) /\ w.resolver[2][1] = "contract"
                              THEN w.resolver[2][2]
                              ELSE None
             present == {i \in DOMAIN common_keys :
                            LET out == AnswerText(w, common_keys[i])
                            IN  out[1] = "ret" /\ py_truthy(out[2])}
             text_records == [k \in {common_keys[i] : i \in present} |-> AnswerText(w, k)[2]]
             calls == <<Call("address", <<name>>, w.address),
                        Call("owner", <<name>>, w.owner),
                        Call("resolver", <<name>>, w.resolver)>>
                      \o [i \in DOMAIN common_keys |->
                            Call("get_text", <<name, Str(common_keys[i])>>,
                                 AnswerText(w, common_keys[i]))]
         IN  IF w.owner[1] = "raise"
             THEN Ret(Obj([success |-> Bool(FALSE),
                           error |-> Str("Error getting ENS info: " \o w.owner[2].msg),
                           ens_name |-> name]),
                      <<Call("address", <<name>>, w.address),
                        Call("owner", <<name>>, w.owner)>>)
             ELSE Ret(Obj([success |-> Bool(TRUE), ens_name |-> name,
                           timestamp |-> Str(ts),
                           address |-> address, owner |-> owner, resolver |-> resolver,
                           text_records |-> Obj(text_records)]), calls)

get_ens_info(ens_name, w, ts) ==
    IF ~py_truthy(ens)
    THEN Ret(Obj([success |-> Bool(FALSE), error |-> Str("ENS not initialized"),
                  ens_name |-> ens_name]), <<>>)
    ELSE IF ~IsStr(ens_name)
    THEN Ret(Obj([success |-> Bool(FALSE),
                  error |-> Str("Error getting ENS info: "
                                \o AttributeError(ens_name, "strip").msg),
                  ens_name |-> ens_name]), <<>>)
    ELSE LET name == Str(lower(strip(ens_name[2])))
             \* a sub-lookup that raises anything degrades to None
             address == IF w.address[1] = "raise" THEN None ELSE w.address[2]
             owner == IF w.owner[1] = "raise" THEN None ELSE w.owner[2]
             resolver == IF w.resolver[1] = "raise" THEN None
                         ELSE IF py_truthy(w.resolver[2]) /\ w.resolver[2][1] = "contract"
                              THEN w.resolver[2][2]
                              ELSE None
             present == {i \in DOMAIN common_keys :
                            LET out == AnswerText(w, common_keys[i])
                            IN  out[1] = "ret" /\ py_truthy(out[2])}
             text_records == [k \in {common_keys[i] : i \in present} |-> AnswerText(w, k)[2]]
             calls == <<Call("address", <<name>>, w.address),
                        Call("owner", <<name>>, w.owner),
                        Call("resolver", <<name>>, w.resolver)>>
                      \o [i \in DOMAIN common_keys |->
                            Call("get_text", <<name, Str(common_keys[i])>>,
                                 AnswerText(w, common_keys[i]))]
         IN  Ret(Obj([success |-> Bool(TRUE), ens_name |-> name, timestamp |-> Str(ts),
                      address |-> address, owner |-> owner, resolver |-> resolver,
                      text_records |-> Obj(text_records)]), calls)

(***************************************************************************)
(* The router                                                              *)
(***************************************************************************)
\* ToolCallError stamping the failure payload like a success payload
ToolCallError_WithTimestamp(e, calls) ==
    Ret(Obj([success |-> Bool(FALSE),
             error |-> Str("Error handling tool call: " \o e.msg),
             timestamp |-> Str("2025-01-01T00:00:00")]), calls)

\* the envelope handle_tool_call returns when anything inside it raises
ToolCallError(e, calls) ==
    Ret(Obj([success |-> Bool(FALSE),
             error |-> Str("Error handling tool call: " \o e.msg)]), calls)

\* arguments[k]: the value, or the exception the subscript raises
HasKey(arguments, k) == IsDict(arguments) /\ k \in DOMAIN arguments[2]

\* handle_tool_call comparing the tool name without regard to case
handle_tool_call_AnyCase(tool_name, arguments, w, ts) ==
    LET guarded(r) == IF r.raised /\ IsException(r.exc)
                      THEN ToolCallError(r.exc, r.calls) ELSE r
        lowered == IF IsStr(tool_name) THEN Str(lower(tool_name[2])) ELSE tool_name
    IN  IF lowered = Str("resolve_ens_name")
        THEN IF ~HasKey(arguments, "ens_name")
             THEN ToolCallError(SubscriptError(arguments, "ens_name"), <<>>)
             ELSE guarded(resolve_ens_name(arguments[2]["ens_name"],
                                           dict_get(arguments, "coin_type", Num(60)), w, ts))
        ELSE IF lowered = Str("reverse_resolve_address")
        THEN IF ~HasKey(arguments, "address")
             THEN ToolCallError(SubscriptError(arguments, "address"), <<>>)
             ELSE guarded(reverse_resolve_address(arguments[2]["address"], w, ts))
        ELSE IF lowered = Str("get_ens_text_record")
        THEN IF ~HasKey(arguments, "ens_name")
             THEN ToolCallError(SubscriptError(arguments, "ens_name"), <<>>)
             ELSE IF ~HasKey(arguments, "key")
             THEN ToolCallError(SubscriptError(arguments, "key"), <<>>)
             ELSE guarded(get_ens_text_record(arguments[2]["ens_name"],
                                              arguments[2]["key"], w, ts))
        ELSE IF lowered = Str("get_ens_info")
        THEN IF ~HasKey(arguments, "ens_name")
             THEN ToolCallError(SubscriptError(arguments, "ens_name"), <<>>)
             ELSE guarded(get_ens_info(arguments[2]["ens_name"], w, ts))
        ELSE Ret(Obj([success |-> Bool(FALSE),
                      error |-> Str("Unknown tool: " \o py_str(tool_name))]), <<>>)

handle_tool_call(tool_name, arguments, w, ts) ==
    LET guarded(r) == IF r.raised /\ IsException(r.exc)
                      THEN ToolCallError(r.exc, r.calls) ELSE r
    IN  IF tool_name = Str("resolve_ens_name")
        THEN IF ~HasKey(arguments, "ens_name")
             THEN ToolCallError(SubscriptError(arguments, "ens_name"), <<>>)
             ELSE guarded(resolve_ens_name(arguments[2]["ens_name"],
                                           dict_get(arguments, "coin_type", Num(60)), w, ts))
        ELSE IF tool_name = Str("reverse_resolve_address")
        THEN IF ~HasKey(arguments, "address")
             THEN ToolCallError(SubscriptError(arguments, "address"), <<>>)
             ELSE guarded(reverse_resolve_address(arguments[2]["address"], w, ts))
        ELSE IF tool_name = Str("get_ens_text_record")
        THEN IF ~HasKey(arguments, "ens_name")
             THEN ToolCallError(SubscriptError(arguments, "ens_name"), <<>>)
             ELSE IF ~HasKey(arguments, "key")
             THEN ToolCallError(SubscriptError(arguments, "key"), <<>>)
             ELSE guarded(get_ens_text_record(arguments[2]["ens_name"],
                                              arguments[2]["key"], w, ts))
        ELSE IF tool_name = Str("get_ens_info")
        THEN IF ~HasKey(arguments, "ens_name")
             THEN ToolCallError(SubscriptError(arguments, "ens_name"), <<>>)
             ELSE guarded(get_ens_info(arguments[2]["ens_name"], w, ts))
        ELSE Ret(Obj([success |-> Bool(FALSE),
                      error |-> Str("Unknown tool: " \o py_str(tool_name))]), <<>>)

get_server_info ==
    Obj([name |-> Str("ENS MCP Server"),
         version |-> Str("1.0.0"),
         description |-> Str("A Model Context Protocol server for Ethereum Name Service resolution"),
         author |-> Str("ENS MCP Team"),
         capabilities |-> Obj([tools |-> Bool(TRUE), resources |-> Bool(FALSE),
                               prompts |-> Bool(FALSE)])])

\* one Operation Descriptor: name, description, the properties of its input
\* schema (name -> JSON type; the per-property description texts are left
\* out) and the required ones
ToolDescriptor(name, description, properties, required) ==
    Obj([name |-> Str(name), description |-> Str(description),
         inputSchema |-> Obj([type |-> Str("object"),
                              properties |-> Obj(properties),
                              required |-> <<"list", required>>])])

\* get_available_tools whose last descriptor repeats the name of the third
get_available_tools_RepeatedName ==
    <<"list",
      <<ToolDescriptor("resolve_ens_name", "Resolve an ENS name to an Ethereum address",
                       [ens_name |-> Obj([type |-> Str("string")]),
                        coin_type |-> Obj([type |-> Str("integer"), default |-> Num(60)])],
                       <<Str("ens_name")>>),
        ToolDescriptor("reverse_resolve_address",
                       "Reverse resolve an Ethereum address to find its primary ENS name",
                       [address |-> Obj([type |-> Str("string")])],
                       <<Str("address")>>),
        ToolDescriptor("get_ens_text_record", "Get a text record from an ENS name",
                       [ens_name |-> Obj([type |-> Str("string")]),
                        key |-> Obj([type |-> Str("string")])],
                       <<Str("ens_name"), Str("key")>>),
        ToolDescriptor("get_ens_text_record", "Get comprehensive information about an ENS name",
                       [ens_name |-> Obj([type |-> Str("string")])],
                       <<Str("ens_name")>>)>>>>

get_available_tools ==
    <<"list",
      <<ToolDescriptor("resolve_ens_name", "Resolve an ENS name to an Ethereum address",
                       [ens_name |-> Obj([type |-> Str("string")]),
                        coin_type |-> Obj([type |-> Str("integer"), default |-> Num(60)])],
                       <<Str("ens_name")>>),
        ToolDescriptor("reverse_resolve_address",
                       "Reverse resolve an Ethereum address to find its primary ENS name",
                       [address |-> Obj([type |-> Str("string")])],
                       <<Str("address")>>),
        ToolDescriptor("get_ens_text_record", "Get a text record from an ENS name",
                       [ens_name |-> Obj([type |-> Str("string")]),
                        key |-> Obj([type |-> Str("string")])],
                       <<Str("ens_name"), Str("key")>>),
        ToolDescriptor("get_ens_info", "Get comprehensive information about an ENS name",
                       [ens_name |-> Obj([type |-> Str("string")])],
                       <<Str("ens_name")>>)>>>>

\* json.dumps(v): the text of the JSON document for v
json_dumps(v) == <<"text", v>>

\* InternalError that does not echo the id of the request
InternalError_NoId(message, e, calls) ==
    Ret(Obj([id |-> None,
             error |-> Obj([code |-> Num(-32603),
                            message |-> Str("Internal error: " \o e.msg)])]), calls)

\* InternalError reporting the failure with a code outside the reserved ones
InternalError_WrongCode(message, e, calls) ==
    Ret(Obj([id |-> dict_get(message, "id", None),
             error |-> Obj([code |-> Num(-32000),
                            message |-> Str("Internal error: " \o e.msg)])]), calls)

\* the response of the "except Exception" clause of handle_message
InternalError(message, e, calls) ==
    Ret(Obj([id |-> dict_get(message, "id", None),
             error |-> Obj([code |-> Num(-32603),
                            message |-> Str("Internal error: " \o e.msg)])]), calls)

\* ToolCallResponse promoting a failed envelope to a top-level error
ToolCallResponse_ErrorOnFailure(message, envelope) ==
    IF envelope[2].success = Bool(FALSE)
    THEN Obj([id |-> dict_get(message, "id", None),
              error |-> Obj([code |-> Num(-32603), message |-> envelope[2].error])])
    ELSE Obj([id |-> dict_get(message, "id", None),
              result |-> Obj([content |->
                                <<"list", <<Obj([type |-> Str("text"),
                                                 text |-> json_dumps(envelope)])>>>>])])

\* the response of the tools/call branch: the envelope as JSON text in one
\* content block
ToolCallResponse(message, envelope) ==
    Obj([id |-> dict_get(message, "id", None),
         result |-> Obj([content |->
                           <<"list", <<Obj([type |-> Str("text"),
                                            text |-> json_dumps(envelope)])>>>>])])

\* MethodNotFound answering with an empty result next to the error
MethodNotFound_WithResult(message, method) ==
    Obj([id |-> dict_get(message, "id", None),
         result |-> None,
         error |-> Obj([code |-> Num(-32601),
                        message |-> Str("Method not found: " \o py_str(method))])])

\* the response of the final else branch
MethodNotFound(message, method) ==
    Obj([id |-> dict_get(message, "id", None),
         error |-> Obj([code |-> Num(-32601),
                        message |-> Str("Method not found: " \o py_str(method))])])

\* the end of the tools/call branch of handle_message, r being what
\* handle_tool_call returned or raised
ToolCallOutcome(message, r) ==
    IF ~r.raised THEN Ret(ToolCallResponse(message, r.value), r.calls)
    ELSE IF IsException(r.exc) THEN InternalError(message, r.exc, r.calls)
    ELSE Raise(r.exc, r.calls)

handle_message(message, w, ts) ==
    IF ~IsDict(message)
    THEN \* message.get raises in the try block and again, on
         \* message.get("id"), in the except clause: the exception escapes
         Raise(AttributeError(message, "get"), <<>>)
    ELSE LET method == dict_get(message, "method", None)
             id == dict_get(message, "id", None)
         IN  IF method = Str("initialize")
             THEN Ret(Obj([id |-> id,
                           result |-> Obj([protocolVersion |-> Str("2024-11-05"),
                                           capabilities |->
                                               Obj([tools |-> Obj([listChanged |-> Bool(TRUE)])]),
                                           serverInfo |-> get_server_info])]), <<>>)
             ELSE IF method = Str("tools/list")
             THEN Ret(Obj([id |-> id, result |-> Obj([tools |-> get_available_tools])]), <<>>)
             ELSE IF method = Str("tools/call")
             THEN LET params == dict_get(message, "params", EmptyDict)
                  IN  IF ~IsDict(params)
                      THEN InternalError(message, AttributeError(params, "get"), <<>>)
                      ELSE LET tool_name == dict_get(params, "name", None)
                               arguments == dict_get(params, "arguments", EmptyDict)
                           IN  ToolCallOutcome(message,
                                               handle_tool_call(tool_name, arguments, w, ts))
             ELSE Ret(MethodNotFound(message, method), <<>>)

(***************************************************************************)
(* The input lines the environment can send                                *)
(***************************************************************************)
\* a line of stdin is <<"raw", s>>, a text s that is not a JSON document,
\* or <<"json", v>>, the text of the JSON document for v followed by "\n";
\* readline() gives "" on end-of-stream
EndOfStream == <<"raw", "">>
NoLine == <<"none">>

Absent == <<"absent">>
NoKeys == [k \in {} |-> None]

\* the request with the keys of body and, unless idc is Absent, the id idc
Request(body, idc) == IF idc = Absent THEN Obj(body) ELSE Obj(body @@ [id |-> idc])

ToolsCall(params) == [method |-> Str("tools/call"), params |-> params]
CallTool(name, arguments) ==
    ToolsCall(Obj([name |-> Str(name), arguments |-> arguments]))

IdChoices == {Absent, None, Num(1), Str("req-1")}

\* requests that are not tools/call
MetaBodies ==
    { NoKeys,
      [method |-> Str("initialize")],
      [method |-> Str("initialize"),
       params |-> Obj([protocolVersion |-> Str("2024-11-05")])],
      [method |-> Str("tools/list")],
      [method |-> Str("Tools/List")],
      [method |-> Str("resources/list")],
      [method |-> Num(5)],
      [method |-> None],
      [method |-> Str("resolve_ens_name"),
       params |-> Obj([ens_name |-> Str("ab.eth")])] }

\* tools/call requests whose params are malformed or name no known tool
RoutingBodies ==
    { [method |-> Str("tools/call")],
      ToolsCall(None),
      ToolsCall(EmptyList),
      ToolsCall(EmptyDict),
      ToolsCall(Obj([arguments |-> Obj([ens_name |-> Str("ab.eth")])])),
      ToolsCall(Obj([name |-> None])),
      ToolsCall(Obj([name |-> Num(7), arguments |-> EmptyDict])),
      CallTool("unknown_tool", EmptyDict),
      CallTool("Resolve_ENS_Name", Obj([ens_name |-> Str("ab.eth")])),
      ToolsCall(Obj([name |-> Str("resolve_ens_name")])),
      CallTool("resolve_ens_name", None),
      CallTool("resolve_ens_name", EmptyList),
      CallTool("resolve_ens_name", Str("ab.eth")),
      CallTool("resolve_ens_name", Num(3)) }

NameInputs == {"ab.eth", " Ab.ETH ", "AB.eth\n", "\tab.Eth", "cd.eth", ""}

ResolveBodies ==
    { CallTool("resolve_ens_name", EmptyDict),
      CallTool("resolve_ens_name", Obj([coin_type |-> Num(60)])),
      CallTool("resolve_ens_name", Obj([ens_name |-> Num(3)])),
      CallTool("resolve_ens_name", Obj([ens_name |-> None])),
      CallTool("resolve_ens_name", Obj([ens_name |-> Str("ab.eth"), coin_type |-> Num(60)])),
      CallTool("resolve_ens_name", Obj([ens_name |-> Str("ab.eth"), coin_type |-> Num(0)])),
      CallTool("resolve_ens_name", Obj([ens_name |-> Str(" Ab.ETH "), coin_type |-> Num(0)])),
      CallTool("resolve_ens_name", Obj([ens_name |-> Str("ab.eth"), coin_type |-> Str("btc")])) }
    \cup { CallTool("resolve_ens_name", Obj([ens_name |-> Str(n)])) : n \in NameInputs }

AddressInputs == {"0xab", " 0xAB\n", "0xAb", "0xcd", "0xaB", "not-an-address",
                  " not-an-address ", ""}

ReverseBodies ==
    { CallTool("reverse_resolve_address", EmptyDict),
      ToolsCall(Obj([name |-> Str("reverse_resolve_address")])),
      CallTool("reverse_resolve_address", Obj([address |-> Num(5)])),
      CallTool("reverse_resolve_address", Obj([address |-> None])) }
    \cup { CallTool("reverse_resolve_address", Obj([address |-> Str(a)])) : a \in AddressInputs }

TextBodies ==
    { CallTool("get_ens_text_record", EmptyDict),
      CallTool("get_ens_text_record", Obj([ens_name |-> Str("ab.eth")])),
      CallTool("get_ens_text_record", Obj([key |-> Str("url")])),
      CallTool("get_ens_text_record", Obj([ens_name |-> Num(3), key |-> Str("url")])),
      CallTool("get_ens_text_record", Obj([ens_name |-> Str(" Ab.ETH "), key |-> Num(5)])),
      CallTool("get_ens_text_record", Obj([ens_name |-> Str("ab.eth"), key |-> Str("url")])),
      CallTool("get_ens_text_record", Obj([ens_name |-> Str(" Ab.ETH "), key |-> Str(" URL ")])),
      CallTool("get_ens_text_record", Obj([ens_name |-> Str("ab.eth"), key |-> Str("Url\n")])),
      CallTool("get_ens_text_record", Obj([ens_name |-> Str("AB.eth\n"), key |-> Str("email")])),
      CallTool("get_ens_text_record", Obj([ens_name |-> Str("cd.eth"), key |-> Str("avatar")])) }

InfoBodies ==
    { CallTool("get_ens_info", EmptyDict),
      CallTool("get_ens_info", None),
      CallTool("get_ens_info", Obj([ens_name |-> Num(3)])),
      CallTool("get_ens_info", Obj([ens_name |-> None])) }
    \cup { CallTool("get_ens_info", Obj([ens_name |-> Str(n)])) : n \in NameInputs }

Bodies == MetaBodies \cup RoutingBodies \cup ResolveBodies \cup ReverseBodies
          \cup TextBodies \cup InfoBodies

\* lines that are not a JSON document, and JSON documents that are not objects
RawLines == {<<"raw", "\n">>, <<"raw", "not json\n">>, <<"raw", "{\"method\": \n">>}
NonObjectLines == {<<"json", v>> : v \in {None, Bool(TRUE), Num(42), Str("initialize"), EmptyList}}

Lines == RawLines \cup NonObjectLines
         \cup {<<"json", Request(b, i)>> : b \in Bodies, i \in IdChoices}

(***************************************************************************)
(* The answers the collaborator can give                                   *)
(***************************************************************************)
AddressOutcomes ==
    { Returns(Str("0xAb")), Returns(None), Returns(Str("")),
      Raises(Exc("ENSException", "resolver not set")),
      Raises(Exc("ConnectionError", "node unreachable")) }

NameOutcomes ==
    { Returns(Str("ab.eth")), Returns(None),
      Raises(Exc("ConnectionError", "node unreachable")) }

OwnerOutcomes ==
    { Returns(Str("0xcD")), Raises(Exc("ConnectionError", "node unreachable")) }

ResolverOutcomes ==
    { Returns(Contract(Str("0x4976"))), Returns(None),
      Raises(Exc("ENSException", "resolver not set")) }

TextOutcomes ==
    { Returns(Str("https://ab.example")), Returns(None), Returns(Str("")),
      Raises(Exc("ENSException", "resolver not set")) }

TextKeys == {common_keys[i] : i \in DOMAIN common_keys} \cup {"avatar"}

\* every text key answered alike, or the keys answered differently
TextAnswers ==
    { [k \in TextKeys |-> o] : o \in TextOutcomes }
    \cup { [k \in TextKeys |->
              CASE k = "url" -> Returns(Str("https://ab.example"))
                [] k = "email" -> Raises(Exc("ENSException", "resolver not set"))
                [] k = "twitter" -> Returns(Str(""))
                [] k = "github" -> Returns(Str("ab"))
                [] OTHER -> Returns(None)] }

Worlds ==
    [address : AddressOutcomes, name : NameOutcomes, owner : OwnerOutcomes,
     resolver : ResolverOutcomes, get_text : TextAnswers]

\* values of datetime.utcnow().isoformat()
Timestamps == {"2025-01-01T00:00:00", "2025-01-01T00:00:01"}

(***************************************************************************)
(* The message loop                                                        *)
(***************************************************************************)
\* json.loads(line.strip())
json_loads(l) ==
    IF l[1] = "json" THEN Ret(l[2], <<>>)
    ELSE Raise(Exc("JSONDecodeError", "Expecting value"), <<>>)

\* ParseErrorResponse with the JSON-RPC code of "invalid request"
ParseErrorResponse_WrongCode ==
    Obj([error |-> Obj([code |-> Num(-32600), message |-> Str("Parse error")])])

ParseErrorResponse ==
    Obj([error |-> Obj([code |-> Num(-32700), message |-> Str("Parse error")])])

\* what the loop body does with r, what handle_message returned or raised
LineOutcome(r) ==
    IF r.raised
    THEN [printed |-> <<>>, calls |-> r.calls, escaped |-> TRUE, exc |-> r.exc]
    ELSE [printed |-> <<r.value>>, calls |-> r.calls, escaped |-> FALSE,
          exc |-> Exc("", "")]

\* serve_line that answers the first line of a run with an error unless it is
\* an initialize request
serve_line_HandshakeFirst(l, w, ts) ==
    LET parsed == json_loads(l)
    IN  IF parsed.raised
        THEN [printed |-> <<ParseErrorResponse>>, calls |-> <<>>, escaped |-> FALSE,
              exc |-> parsed.exc]
        ELSE IF /\ nread = 1
                /\ IsDict(parsed.value)
                /\ dict_get(parsed.value, "method", None) # Str("initialize")
        THEN LineOutcome(Ret(Obj([id |-> dict_get(parsed.value, "id", None),
                                  error |-> Obj([code |-> Num(-32603),
                                                 message |-> Str("Not initialized")])]),
                             <<>>))
        ELSE LineOutcome(handle_message(parsed.value, w, ts))

\* the body of one iteration of the loop of run_stdio, after the line is
\* read: the responses it prints, the collaborator calls made, and whether an
\* exception leaves the inner try block (caught by the outer "except
\* KeyboardInterrupt" or "except Exception", either of which ends the loop)
serve_line(l, w, ts) ==
    LET parsed == json_loads(l)
    IN  IF parsed.raised
        THEN [printed |-> <<ParseErrorResponse>>, calls |-> <<>>, escaped |-> FALSE,
              exc |-> parsed.exc]
        ELSE LineOutcome(handle_message(parsed.value, w, ts))

StartupOutcomes == {"connected", "not_connected", "provider_error", "ens_error"}

\* the record of a loop iteration before any line is read
NoExchange == [serial |-> 0, line |-> NoLine, calls |-> <<>>, printed |-> <<>>]

Init ==
    /\ pc = "start"
    /\ w3 = None
    /\ ens = None
    /\ remaining \in 0..MaxLines
    /\ line = NoLine
    /\ nread = 0
    /\ output = <<>>
    /\ last = NoExchange
    /\ stop = "none"
    /\ interrupt = "none"
    /\ memo = NoExchange

\* main entering run_stdio whatever became of the construction
main_StartsAnyway ==
    /\ pc = "start"
    /\ \E outcome \in StartupOutcomes :
          /\ w3' = IF outcome = "provider_error" THEN None ELSE Handle("w3")
          /\ ens' = IF outcome = "connected" THEN Handle("ens") ELSE None
          /\ pc' = "reading"
    /\ UNCHANGED <<remaining, line, nread, output, last, stop, interrupt, memo>>

\* main with the stdio transport: construct the server (initialize_web3),
\* then enter run_stdio, or abort when construction raises
main ==
    /\ pc = "start"
    /\ \E outcome \in StartupOutcomes :
          /\ w3' = IF outcome = "provider_error" THEN None ELSE Handle("w3")
          /\ ens' = IF outcome = "connected" THEN Handle("ens") ELSE None
          /\ pc' = IF outcome = "connected" THEN "reading" ELSE "aborted"
    /\ UNCHANGED <<remaining, line, nread, output, last, stop, interrupt, memo>>

\* a loop that reads the next line without awaiting the handling of the
\* line before
ReadFrom_Pipelined(lines) ==
    /\ pc \in {"reading", "handling"}
    /\ interrupt = "none"
    /\ remaining > 0
    /\ \E l \in lines :
          /\ line' = l
          /\ last' = [serial |-> nread + 1, line |-> l, calls |-> <<>>, printed |-> <<>>]
    /\ remaining' = remaining - 1
    /\ nread' = nread + 1
    /\ pc' = "handling"
    /\ UNCHANGED <<w3, ens, output, stop, interrupt, memo>>

\* top of the loop: readline() returns the next line, one of lines
ReadFrom(lines) ==
    /\ pc = "reading"
    /\ interrupt = "none"
    /\ remaining > 0
    /\ \E l \in lines :
          /\ line' = l
          /\ last' = [serial |-> nread + 1, line |-> l, calls |-> <<>>, printed |-> <<>>]
    /\ remaining' = remaining - 1
    /\ nread' = nread + 1
    /\ pc' = "handling"
    /\ UNCHANGED <<w3, ens, output, stop, interrupt, memo>>

ReadLine == ReadFrom(Lines)

\* top of the loop: readline() returns "" and the loop breaks
ReadEndOfStream ==
    /\ pc = "reading"
    /\ interrupt = "none"
    /\ remaining = 0
    /\ line' = EndOfStream
    /\ pc' = "stopped"
    /\ stop' = "eof"
    /\ UNCHANGED <<w3, ens, remaining, nread, output, last, interrupt, memo>>

\* the end of an iteration whose body did s: the responses go to stdout and
\* the loop goes on, or ends in one of its except clauses
Finish(s, keep) ==
    /\ output' = output \o [i \in 1..Len(s.printed) |-> nread]
    /\ last' = [last EXCEPT !.calls = s.calls, !.printed = s.printed]
    /\ pc' = IF s.escaped THEN "stopped" ELSE "reading"
    /\ stop' = IF ~s.escaped THEN stop
               ELSE IF s.exc.type = "KeyboardInterrupt" THEN "interrupt"
               ELSE "error"
    /\ memo' = IF keep /\ memo.serial = 0 THEN last' ELSE memo

\* a loop body that drops the ENS handle once a line is handled
HandleWith_DropsHandle(worlds, keep) ==
    /\ pc = "handling"
    /\ \E w \in worlds, ts \in Timestamps : Finish(serve_line(line, w, ts), keep)
    /\ ens' = None
    /\ UNCHANGED <<w3, remaining, line, nread, interrupt>>

\* the rest of the iteration: parse, handle_message, print, with the
\* collaborator answering as one of worlds; an exception that leaves the
\* inner try block ends the loop in "except KeyboardInterrupt" or in "except
\* Exception".  With keep, memo records the first iteration of the run, for
\* the claims that compare two iterations.
HandleWith(worlds, keep) ==
    /\ pc = "handling"
    /\ \E w \in worlds, ts \in Timestamps : Finish(serve_line(line, w, ts), keep)
    /\ UNCHANGED <<w3, ens, remaining, line, nread, interrupt>>

HandleLine == HandleWith(Worlds, FALSE)

Next == main \/ ReadLine \/ ReadEndOfStream \/ HandleLine

Spec == Init /\ [][Next]_vars

(***************************************************************************)
(* The server on a sample of lines and collaborator answers, running to   *)
(* its end: stdin delivers each line or the end of the stream, every       *)
(* collaborator call returns or raises, and the event loop resumes the     *)
(* coroutine, so a step that can be taken is eventually taken               *)
(***************************************************************************)
LiveLines ==
    { <<"raw", "not json\n">>, <<"json", EmptyList>>, <<"json", Num(42)>> }
    \cup { <<"json", Request(b, Num(1))>> :
             b \in MetaBodies
                   \cup { CallTool("resolve_ens_name", Obj([ens_name |-> Str("ab.eth")])),
                          CallTool("resolve_ens_name", EmptyDict),
                          CallTool("reverse_resolve_address",
                                   Obj([address |-> Str("0xab")])) } }

LiveWorlds ==
    [address : { Returns(Str("0xAb")), Returns(None),
                 Raises(Exc("ConnectionError", "node unreachable")) },
     name : NameOutcomes,
     owner : {Returns(None)},
     resolver : {Returns(None)},
     get_text : {[k \in TextKeys |-> Returns(None)]}]

ReadLiveLine == ReadFrom(LiveLines)
HandleLiveLine == HandleWith(LiveWorlds, FALSE)

NextLive == main \/ ReadLiveLine \/ ReadEndOfStream \/ HandleLiveLine

SpecLive == Init /\ [][NextLive]_vars /\ WF_vars(NextLive)

(***************************************************************************)
(* The server receiving interrupts (SIGINT).  Where the signal raises      *)
(* KeyboardInterrupt depends on the runtime: the default handler raises it *)
(* in the main thread wherever that is, inside a blocking collaborator     *)
(* call included; the handler asyncio.run installs (Python 3.11 and        *)
(* later) cancels the main task on the first signal, which takes effect    *)
(* at the next await that suspends, the readline at the top of the loop,   *)
(* and raises KeyboardInterrupt at once on a second signal.  The           *)
(* specification allows each of these.                                     *)
(***************************************************************************)
\* a collaborator call during which the interrupt is raised
Interrupted == Raises(Exc("KeyboardInterrupt", ""))

InterruptLines ==
    { <<"raw", "not json\n">> }
    \cup { <<"json", Request(b, Num(1))>> :
             b \in { [method |-> Str("tools/list")],
                     CallTool("resolve_ens_name", Obj([ens_name |-> Str("ab.eth")])),
                     CallTool("reverse_resolve_address", Obj([address |-> Str("0xab")])),
                     CallTool("get_ens_text_record",
                              Obj([ens_name |-> Str("ab.eth"), key |-> Str("url")])),
                     CallTool("get_ens_info", Obj([ens_name |-> Str("ab.eth")])) } }

\* a collaborator that answers every call with a value
QuietWorld ==
    [address |-> Returns(Str("0xAb")), name |-> Returns(Str("ab.eth")),
     owner |-> Returns(Str("0xcD")), resolver |-> Returns(None),
     get_text |-> [k \in TextKeys |-> Returns(Str("https://ab.example"))]]

\* no interrupt during the calls of a request, or one during a call
InterruptWorlds ==
    { QuietWorld,
      [QuietWorld EXCEPT !.address = Raises(Exc("ConnectionError", "node unreachable"))],
      [QuietWorld EXCEPT !.address = Interrupted],
      [QuietWorld EXCEPT !.name = Interrupted],
      [QuietWorld EXCEPT !.owner = Interrupted],
      [QuietWorld EXCEPT !.resolver = Interrupted],
      [QuietWorld EXCEPT !.get_text = [k \in TextKeys |-> Interrupted]] }

\* the interrupt arrives, or a pending cancellation takes effect, while the
\* loop awaits readline(): run_stdio ends without printing
InterruptWhileWaiting ==
    /\ pc = "reading"
    /\ pc' = "stopped"
    /\ stop' = "interrupt"
    /\ interrupt' = "none"
    /\ UNCHANGED <<w3, ens, remaining, line, nread, output, last, memo>>

\* the interrupt arrives while a line is handled and the runner cancels
\* the main task: nothing happens until the coroutine awaits again
InterruptDeferred ==
    /\ pc = "handling"
    /\ interrupt = "none"
    /\ interrupt' = "pending"
    /\ UNCHANGED <<pc, w3, ens, remaining, line, nread, output, last, stop, memo>>

ReadInterruptLine == ReadFrom(InterruptLines)
HandleInterruptLine == HandleWith(InterruptWorlds, FALSE)

NextInterrupt ==
    \/ main
    \/ ReadInterruptLine
    \/ ReadEndOfStream
    \/ HandleInterruptLine
    \/ InterruptWhileWaiting
    \/ InterruptDeferred

SpecInterrupt == Init /\ [][NextInterrupt]_vars

(***************************************************************************)
(* The server answering get_ens_info, with every combination of outcomes   *)
(* of its ten sub-lookups                                                  *)
(***************************************************************************)
InfoLines ==
    { <<"json", Request(CallTool("get_ens_info", Obj([ens_name |-> Str(n)])), Num(1))>> :
        n \in {"ab.eth", " Ab.ETH "} }

InfoTextOutcomes ==
    { Returns(Str("https://ab.example")), Returns(Str("")),
      Raises(Exc("ENSException", "resolver not set")) }

\* the collaborator answering the address, owner and resolver lookup and
\* the text lookup of each key as address, owner, resolver and text say
InfoWorld(address, owner, resolver, text) ==
    [address |-> address, name |-> Returns(None), owner |-> owner,
     resolver |-> resolver, get_text |-> text]

InitInfo == Init /\ remaining = 1
ReadInfoLine == ReadFrom(InfoLines)

HandleInfoLine ==
    /\ pc = "handling"
    /\ \E address \in AddressOutcomes, owner \in OwnerOutcomes \cup {Returns(None)},
          resolver \in ResolverOutcomes,
          text \in [{common_keys[i] : i \in DOMAIN common_keys} -> InfoTextOutcomes] :
           HandleWith({InfoWorld(address, owner, resolver, text)}, FALSE)

NextInfo == main \/ ReadInfoLine \/ ReadEndOfStream \/ HandleInfoLine

SpecInfo == InitInfo /\ [][NextInfo]_vars

(***************************************************************************)
(* The server answering text-record requests among other requests, the    *)
(* first iteration of the run kept in memo                                 *)
(***************************************************************************)
TwiceLines ==
    { <<"raw", "not json\n">> }
    \cup { <<"json", Request(b, Num(1))>> :
             b \in { [method |-> Str("initialize")],
                     [method |-> Str("tools/list")],
                     CallTool("resolve_ens_name", Obj([ens_name |-> Str("ab.eth")])),
                     CallTool("get_ens_info", Obj([ens_name |-> Str("ab.eth")])),
                     CallTool("get_ens_text_record",
                              Obj([ens_name |-> Str("ab.eth"), key |-> Str("url")])),
                     CallTool("get_ens_text_record",
                              Obj([ens_name |-> Str(" Ab.ETH "), key |-> Str(" URL ")])),
                     CallTool("get_ens_text_record",
                              Obj([ens_name |-> Str("ab.eth"), key |-> Str("email")])) } }

TwiceWorlds ==
    [address : {Returns(Str("0xAb")), Returns(None)}, name : {Returns(None)},
     owner : {Returns(Str("0xcD"))}, resolver : {Returns(None)},
     get_text : TextAnswers]

InitTwice ==
    /\ pc = "start"
    /\ w3 = None
    /\ ens = None
    /\ remaining = MaxLines + 1
    /\ line = NoLine
    /\ nread = 0
    /\ output = <<>>
    /\ last = NoExchange
    /\ stop = "none"
    /\ interrupt = "none"
    /\ memo = NoExchange

ReadTwiceLine == ReadFrom(TwiceLines)
HandleTwiceLine == HandleWith(TwiceWorlds, TRUE)

NextTwice == main \/ ReadTwiceLine \/ ReadEndOfStream \/ HandleTwiceLine

SpecTwice == InitTwice /\ [][NextTwice]_vars

(***************************************************************************)
(* Reading the last loop iteration                                         *)
(***************************************************************************)
\* the iteration that read last.line has run to its end
Handled == last.serial > 0 /\ pc # "handling"

\* the last line parsed to a JSON object, and that object
IsRequest == last.line[1] = "json" /\ IsDict(last.line[2])
LastRequest == last.line[2]
LastMethod == dict_get(LastRequest, "method", None)

\* the response the last iteration printed, and its top-level keys
Resp == last.printed[1]
RespKeys == DOMAIN Resp[2]

KnownMethods == {Str("initialize"), Str("tools/list"), Str("tools/call")}
ReservedCodes == {Num(-32700), Num(-32601), Num(-32603)}

(***************************************************************************)
(* C1  The message loop writes exactly one response for every line it has  *)
(* finished with, whatever the line parses to and whatever the             *)
(* collaborator does: whenever the loop is back at its top or has ended,   *)
(* the number of responses written equals the number of lines read.        *)
(***************************************************************************)
C1_OneResponsePerLine ==
    pc \in {"reading", "stopped"} => Len(output) = nread

(***************************************************************************)
(* C2  A line that fails to parse as JSON gets exactly one response, whose *)
(* only key is error = {code: -32700, message: "Parse error"}, no          *)
(* collaborator call is made for it, and the loop is back at its top to    *)
(* read the next line: the line does not end the loop.                     *)
(***************************************************************************)
C2_ParseErrorAnswered ==
    [][(pc = "handling" /\ line[1] = "raw") =>
          /\ output' = Append(output, nread)
          /\ Len(last'.printed) = 1
          /\ DOMAIN last'.printed[1][2] = {"error"}
          /\ last'.printed[1][2].error =
                 Obj([code |-> Num(-32700), message |-> Str("Parse error")])
          /\ last'.calls = <<>>
          /\ pc' = "reading"
          /\ stop' = "none"]_vars

\* a malformed line has been answered and the loop is about to read the
\* line that follows it
C2_Witness ==
    /\ pc = "reading"
    /\ remaining > 0
    /\ last.line = <<"raw", "not json\n">>
    /\ Len(last.printed) = 1
    /\ output = <<1>>

(***************************************************************************)
(* C3  handle_message never lets an exception escape to the message loop:  *)
(* every line that parses as JSON is answered with a response and the loop *)
(* is not ended by an exception.                                           *)
(***************************************************************************)
C3_NoExceptionEscapes ==
    (Handled /\ last.line[1] = "json") => (stop # "error" /\ Len(last.printed) = 1)

(***************************************************************************)
(* C4  A request whose method is not exactly "initialize", "tools/list" or *)
(* "tools/call" (a request without a method included) is answered with     *)
(* error = {code: -32601, message: "Method not found: <method>"}, without  *)
(* a result key and without any collaborator call.                         *)
(***************************************************************************)
C4_UnknownMethod ==
    (Handled /\ IsRequest /\ LastMethod \notin KnownMethods) =>
        /\ Len(last.printed) = 1
        /\ "result" \notin RespKeys
        /\ "error" \in RespKeys
        /\ Resp[2].error = Obj([code |-> Num(-32601),
                                message |-> Str("Method not found: " \o py_str(LastMethod))])
        /\ last.calls = <<>>

\* a request without a method has been answered "Method not found: None"
C4_Witness ==
    /\ Handled
    /\ IsRequest
    /\ "method" \notin DOMAIN LastRequest[2]
    /\ Len(last.printed) = 1
    /\ Resp[2].error[2].message = Str("Method not found: None")

(***************************************************************************)
(* C5  Every response written has exactly one of the keys result and       *)
(* error; an error is an object {code, message} whose code is one of       *)
(* -32700, -32601, -32603 and whose message is a string.                   *)
(***************************************************************************)
C5_ResultXorError ==
    \A i \in DOMAIN last.printed :
        LET r == last.printed[i][2]
        IN  /\ ("result" \in DOMAIN r) # ("error" \in DOMAIN r)
            /\ "error" \in DOMAIN r =>
                  /\ r.error[1] = "obj"
                  /\ DOMAIN r.error[2] = {"code", "message"}
                  /\ r.error[2].code \in ReservedCodes
                  /\ r.error[2].message[1] = "str"

\* an internal error has been written
C5_Witness ==
    /\ Len(last.printed) = 1
    /\ "error" \in RespKeys
    /\ Resp[2].error[2].code = Num(-32603)

(***************************************************************************)
(* Reading a tools/call exchange                                           *)
(***************************************************************************)
KnownTools == {Str("resolve_ens_name"), Str("reverse_resolve_address"),
               Str("get_ens_text_record"), Str("get_ens_info")}

\* the last line is a tools/call request; its params (the default {} when
\* the request has none), tool name and arguments as the router reads them
IsToolsCall == IsRequest /\ LastMethod = Str("tools/call")
LastParams == dict_get(LastRequest, "params", EmptyDict)
LastTool == dict_get(LastParams, "name", None)
LastArguments == dict_get(LastParams, "arguments", EmptyDict)
CallsKnownTool == IsToolsCall /\ IsDict(LastParams) /\ LastTool \in KnownTools

\* the response carries a result whose first content block is a text
HasEnvelope ==
    /\ Len(last.printed) = 1
    /\ "result" \in RespKeys
    /\ Resp[2].result[1] = "obj"
    /\ "content" \in DOMAIN Resp[2].result[2]
    /\ Len(Resp[2].result[2].content[2]) >= 1
    /\ Resp[2].result[2].content[2][1][2].text[1] = "text"

\* result.content[0].text, parsed as JSON
Envelope == Resp[2].result[2].content[2][1][2].text[2]

C7_EnvelopeShape ==
    (Handled /\ CallsKnownTool) =>
        /\ HasEnvelope
        /\ Envelope[1] = "obj"
        /\ "success" \in DOMAIN Envelope[2]
        /\ \/ /\ Envelope[2].success = Bool(TRUE)
              /\ "error" \notin DOMAIN Envelope[2]
              /\ "timestamp" \in DOMAIN Envelope[2]
           \/ /\ Envelope[2].success = Bool(FALSE)
              /\ "error" \in DOMAIN Envelope[2]
              /\ "timestamp" \notin DOMAIN Envelope[2]

\* a known operation has failed on arguments that are not an object
C7_Witness ==
    /\ Handled
    /\ CallsKnownTool
    /\ ~IsDict(LastArguments)
    /\ HasEnvelope
    /\ Envelope[2].success = Bool(FALSE)

\* a collaborator call of the last iteration made its operation fail
DomainFailure ==
    \E i \in DOMAIN last.calls :
        LET c == last.calls[i]
        IN  \/ /\ LastTool = Str("resolve_ens_name")
               /\ c.fn = "address"
               /\ (c.out[1] = "raise" \/ ~py_truthy(c.out[2]))
            \/ /\ LastTool = Str("reverse_resolve_address")
               /\ \/ c.fn = "is_address" /\ c.out = Returns(Bool(FALSE))
                  \/ c.fn = "name" /\ (c.out[1] = "raise" \/ ~py_truthy(c.out[2]))
            \/ /\ LastTool = Str("get_ens_text_record")
               /\ c.fn = "get_text"
               /\ c.out[1] = "raise"

MissingToolName == IsToolsCall /\ (IsDict(LastParams) => "name" \notin DOMAIN LastParams[2])

(***************************************************************************)
(* C9 (as stated)  A tools/call request whose params carry no tool name is *)
(* answered with a top-level error with one of the reserved codes and no   *)
(* result key.                                                             *)
(***************************************************************************)
C9_MissingNameIsProtocolError ==
    (Handled /\ MissingToolName) =>
        /\ Len(last.printed) = 1
        /\ "error" \in RespKeys
        /\ "result" \notin RespKeys
        /\ Resp[2].error[2].code \in ReservedCodes

(***************************************************************************)
(* C9 (amended)  A tools/call request without params, or whose params are  *)
(* an object without a name, is answered with a result and no top-level    *)
(* error: the envelope is {success: false, error: "Unknown tool: None"}    *)
(* and no collaborator call is made.  Only params that are present and not *)
(* an object give the top-level error -32603.                              *)
(***************************************************************************)
C9_MissingNameIsUnknownTool ==
    (Handled /\ MissingToolName) =>
        IF IsDict(LastParams)
        THEN /\ HasEnvelope
             /\ "error" \notin RespKeys
             /\ Envelope = Obj([success |-> Bool(FALSE), error |-> Str("Unknown tool: None")])
             /\ last.calls = <<>>
        ELSE /\ Len(last.printed) = 1
             /\ "result" \notin RespKeys
             /\ "error" \in RespKeys
             /\ Resp[2].error[2].code = Num(-32603)
             /\ last.calls = <<>>

\* a tools/call with arguments but no tool name has been answered
C9_Witness ==
    /\ Handled
    /\ MissingToolName
    /\ IsDict(LastParams)
    /\ "arguments" \in DOMAIN LastParams[2]
    /\ HasEnvelope
    /\ Envelope[2].error = Str("Unknown tool: None")

\* the trimmed, lower-case name that each name input is a variant of
NameOf(n) ==
    CASE n \in {"ab.eth", " Ab.ETH ", "AB.eth\n", "\tab.Eth"} -> "ab.eth"
      [] n = "cd.eth" -> "cd.eth"
      [] n = "" -> ""

\* the answer the collaborator gave to method fn during the last iteration
LoggedOutcome(fn, default) ==
    IF \E i \in DOMAIN last.calls : last.calls[i].fn = fn
    THEN last.calls[CHOOSE i \in DOMAIN last.calls : last.calls[i].fn = fn].out
    ELSE default

LoggedText(key) ==
    IF \E i \in DOMAIN last.calls :
          last.calls[i].fn = "get_text" /\ last.calls[i].args[2] = Str(key)
    THEN last.calls[CHOOSE i \in DOMAIN last.calls :
                       last.calls[i].fn = "get_text" /\ last.calls[i].args[2] = Str(key)].out
    ELSE Returns(None)

\* a collaborator that answers as it did during the last iteration
LoggedWorld ==
    [address |-> LoggedOutcome("address", Returns(None)),
     name |-> LoggedOutcome("name", Returns(None)),
     owner |-> LoggedOutcome("owner", Returns(None)),
     resolver |-> LoggedOutcome("resolver", Returns(None)),
     get_text |-> [k \in TextKeys |-> LoggedText(k)]]

TakesName ==
    /\ CallsKnownTool
    /\ LastTool \in {Str("resolve_ens_name"), Str("get_ens_text_record"), Str("get_ens_info")}
    /\ HasKey(LastArguments, "ens_name")
    /\ IsStr(LastArguments[2].ens_name)
    /\ LastArguments[2].ens_name[2] \in NameInputs

\* the last request with its name replaced by the trimmed, lower-case name
CanonicalRequest ==
    LET args == [LastArguments[2] EXCEPT
                    !.ens_name = Str(NameOf(LastArguments[2].ens_name[2]))]
        params == [LastParams[2] EXCEPT !.arguments = Obj(args)]
    IN  Obj([LastRequest[2] EXCEPT !.params = Obj(params)])

WithoutTimestamp(e) == [k \in DOMAIN e[2] \ {"timestamp"} |-> e[2][k]]

(***************************************************************************)
(* C10  Name normalization: a resolve_ens_name, get_ens_text_record or     *)
(* get_ens_info call whose name differs from a trimmed, lower-case name    *)
(* only in surrounding whitespace and letter case makes the collaborator   *)
(* calls that the call with the trimmed, lower-case name makes, each with  *)
(* that name, and, given the same answers, returns the same envelope apart *)
(* from the timestamp value, on success and on every failure path.         *)
(***************************************************************************)
C10_NameNormalization ==
    (Handled /\ TakesName) =>
        LET canonical == handle_message(CanonicalRequest, LoggedWorld, "2025-01-01T00:00:02")
            envelope == canonical.value[2].result[2].content[2][1][2].text[2]
        IN  /\ HasEnvelope
            /\ \A i \in DOMAIN last.calls :
                  last.calls[i].args[1] = Str(NameOf(LastArguments[2].ens_name[2]))
            /\ ~canonical.raised
            /\ canonical.calls = last.calls
            /\ WithoutTimestamp(Envelope) = WithoutTimestamp(envelope)
            /\ ("timestamp" \in DOMAIN Envelope[2]) = ("timestamp" \in DOMAIN envelope[2])

\* resolve_ens_name(" Ab.ETH ") has found no address for ab.eth
C10_Witness ==
    /\ Handled
    /\ TakesName
    /\ LastTool = Str("resolve_ens_name")
    /\ LastArguments[2].ens_name = Str(" Ab.ETH ")
    /\ HasEnvelope
    /\ "error" \in DOMAIN Envelope[2]
    /\ Envelope[2].error = Str("No address found for ENS name: ab.eth")
    /\ last.calls[1].args[1] = Str("ab.eth")

\* the address inputs the format check rejects, and each one trimmed
RejectedAddresses == {"0xaB", "not-an-address", " not-an-address ", ""}
TrimmedAddress(a) == IF a = " not-an-address " THEN "not-an-address" ELSE a

\* the last request calls reverse_resolve_address with a text the format
\* check rejects
ReversesRejected ==
    /\ CallsKnownTool
    /\ LastTool = Str("reverse_resolve_address")
    /\ HasKey(LastArguments, "address")
    /\ IsStr(LastArguments[2].address)
    /\ LastArguments[2].address[2] \in RejectedAddresses

(***************************************************************************)
(* C11  reverse_resolve_address on an input the address-format check       *)
(* rejects returns exactly {success: false, error: "Invalid Ethereum       *)
(* address format: <trimmed input>", address: <trimmed input>}, and the    *)
(* only collaborator call it makes is the format check: no checksum        *)
(* canonicalization and no reverse lookup.                                 *)
(***************************************************************************)
C11_RejectedAddress ==
    (Handled /\ ReversesRejected) =>
        LET trimmed == TrimmedAddress(LastArguments[2].address[2])
        IN  /\ HasEnvelope
            /\ Envelope = Obj([success |-> Bool(FALSE),
                               error |-> Str("Invalid Ethereum address format: "
                                             \o trimmed),
                               address |-> Str(trimmed)])
            /\ Len(last.calls) = 1
            /\ last.calls[1] = Call("is_address", <<Str(trimmed)>>, Returns(Bool(FALSE)))
            /\ \A i \in DOMAIN last.calls :
                  last.calls[i].fn \notin {"to_checksum_address", "name"}

\* reverse_resolve_address(" not-an-address ") has been rejected
C11_Witness ==
    /\ Handled
    /\ ReversesRejected
    /\ LastArguments[2].address = Str(" not-an-address ")
    /\ HasEnvelope
    /\ "address" \in DOMAIN Envelope[2]
    /\ Envelope[2].address = Str("not-an-address")
    /\ Len(last.calls) = 1

\* the last request calls get_ens_text_record with a text name and key
ReadsTextRecord ==
    /\ CallsKnownTool
    /\ LastTool = Str("get_ens_text_record")
    /\ HasKey(LastArguments, "ens_name")
    /\ HasKey(LastArguments, "key")
    /\ IsStr(LastArguments[2].ens_name)
    /\ IsStr(LastArguments[2].key)

\* the key inputs, trimmed and in lower case
KeyOf(k) == IF k \in {"url", " URL ", "Url\n"} THEN "url" ELSE k

\* the last request calls the forward or the reverse lookup with a text
\* argument and the collaborator has returned nothing or an empty text
LookupReturnedEmpty ==
    /\ CallsKnownTool
    /\ \/ /\ LastTool = Str("resolve_ens_name")
          /\ LoggedOutcome("address", Returns(Str("0xAb"))) \in
                {Returns(None), Returns(Str(""))}
       \/ /\ LastTool = Str("reverse_resolve_address")
          /\ LoggedOutcome("name", Returns(Str("ab.eth"))) = Returns(None)

(***************************************************************************)
(* C12  get_ens_text_record, given a text name and key, makes one text     *)
(* lookup; whenever that lookup returns, with a value, with no value or    *)
(* with an empty value, the payload is success: true with ens_name, key    *)
(* and the returned value; the payload is success: false exactly when the  *)
(* lookup throws.  resolve_ens_name and reverse_resolve_address are the    *)
(* opposite: a lookup that returns an empty result is success: false.      *)
(***************************************************************************)
C12_EmptyTextIsSuccess ==
    /\ (Handled /\ ReadsTextRecord) =>
          /\ HasEnvelope
          /\ Len(last.calls) = 1
          /\ last.calls[1].fn = "get_text"
          /\ LET out == last.calls[1].out
             IN  IF out[1] = "ret"
                 THEN /\ DOMAIN Envelope[2] =
                            {"success", "ens_name", "key", "value", "timestamp"}
                      /\ Envelope[2].success = Bool(TRUE)
                      /\ Envelope[2].ens_name =
                            Str(NameOf(LastArguments[2].ens_name[2]))
                      /\ Envelope[2].key = Str(KeyOf(LastArguments[2].key[2]))
                      /\ Envelope[2].value = out[2]
                 ELSE /\ Envelope[2].success = Bool(FALSE)
                      /\ "value" \notin DOMAIN Envelope[2]
    /\ (Handled /\ LookupReturnedEmpty) =>
          /\ HasEnvelope
          /\ Envelope[2].success = Bool(FALSE)

\* get_ens_text_record("ab.eth", " URL ") has succeeded with no value
C12_Witness ==
    /\ Handled
    /\ ReadsTextRecord
    /\ LastArguments[2].key = Str(" URL ")
    /\ HasEnvelope
    /\ Len(last.calls) = 1
    /\ last.calls[1].out = Returns(None)
    /\ Envelope[2].success = Bool(TRUE)
    /\ "value" \in DOMAIN Envelope[2]
    /\ Envelope[2].value = None

\* the last request calls get_ens_info with a text name
AsksInfo ==
    /\ CallsKnownTool
    /\ LastTool = Str("get_ens_info")
    /\ HasKey(LastArguments, "ens_name")
    /\ IsStr(LastArguments[2].ens_name)

\* what a field of the answer of get_ens_info holds after a sub-lookup with
\* outcome out
Degraded(out) == IF out[1] = "ret" THEN out[2] ELSE None

SevenKeys == {"url", "email", "twitter", "github", "discord", "telegram", "description"}

(***************************************************************************)
(* C13  get_ens_info with a text name returns success: true for every      *)
(* combination of outcomes of its sub-lookups.  address, owner and         *)
(* resolver each hold what their own lookup returned (for the resolver,    *)
(* the address of the returned resolver), and null when their own lookup   *)
(* threw, whatever the other lookups did.  text_records holds exactly      *)
(* those of the seven fixed keys whose lookup returned a non-empty value,  *)
(* each with that value.                                                   *)
(***************************************************************************)
C13_InfoDegradesPerField ==
    (Handled /\ AsksInfo) =>
        /\ HasEnvelope
        /\ Len(last.calls) = 10
        /\ Envelope[2].success = Bool(TRUE)
        /\ Envelope[2].address = Degraded(last.calls[1].out)
        /\ Envelope[2].owner = Degraded(last.calls[2].out)
        /\ Envelope[2].resolver =
              IF last.calls[3].out[1] = "ret" /\ last.calls[3].out[2] # None
              THEN last.calls[3].out[2][2]
              ELSE None
        /\ DOMAIN Envelope[2].text_records[2] =
              {k \in SevenKeys : /\ LoggedText(k)[1] = "ret"
                                 /\ LoggedText(k)[2] \notin {None, Str("")}}
        /\ \A k \in DOMAIN Envelope[2].text_records[2] :
              Envelope[2].text_records[2][k] = LoggedText(k)[2]

\* get_ens_info has answered while the owner and the email lookup threw, the
\* twitter record was empty and the address and the url were found
C13_Witness ==
    /\ Handled
    /\ AsksInfo
    /\ HasEnvelope
    /\ Len(last.calls) = 10
    /\ last.calls[1].out = Returns(Str("0xAb"))
    /\ last.calls[2].out[1] = "raise"
    /\ LoggedText("url") = Returns(Str("https://ab.example"))
    /\ LoggedText("email")[1] = "raise"
    /\ LoggedText("twitter") = Returns(Str(""))
    /\ Envelope[2].success = Bool(TRUE)
    /\ Envelope[2].owner = None
    /\ Envelope[2].address = Str("0xAb")
    /\ "url" \in DOMAIN Envelope[2].text_records[2]
    /\ "email" \notin DOMAIN Envelope[2].text_records[2]

\* the last request calls resolve_ens_name with a text name
Resolves ==
    /\ CallsKnownTool
    /\ LastTool = Str("resolve_ens_name")
    /\ HasKey(LastArguments, "ens_name")
    /\ IsStr(LastArguments[2].ens_name)

(***************************************************************************)
(* C14  resolve_ens_name, given a text name, makes one address lookup and  *)
(* classifies its outcome: a returned non-empty address gives success:     *)
(* true with ens_name, address and coin_type; a returned empty or absent   *)
(* address gives success: false with "No address found for ENS name:       *)
(* <name>"; a thrown ENSException gives "ENS error: <description>"; any    *)
(* other thrown exception gives "Unexpected error: <description>".  The    *)
(* operation itself never throws: the payload is always its own.           *)
(***************************************************************************)
C14_ResolveClassification ==
    (Handled /\ Resolves) =>
        /\ HasEnvelope
        /\ Len(last.calls) = 1
        /\ last.calls[1].fn = "address"
        /\ LET name == Str(NameOf(LastArguments[2].ens_name[2]))
               coin_type == dict_get(LastArguments, "coin_type", Num(60))
               out == last.calls[1].out
               failure(text) == [success |-> Bool(FALSE), error |-> Str(text),
                                 ens_name |-> name, coin_type |-> coin_type]
           IN  /\ ("timestamp" \in DOMAIN Envelope[2]) = (Envelope[2].success = Bool(TRUE))
               /\ WithoutTimestamp(Envelope) =
                     IF out[1] = "ret"
                     THEN IF out[2] \in {None, Str("")}
                          THEN failure("No address found for ENS name: " \o name[2])
                          ELSE [success |-> Bool(TRUE), ens_name |-> name,
                                address |-> out[2], coin_type |-> coin_type]
                     ELSE IF out[2].type = "ENSException"
                          THEN failure("ENS error: " \o out[2].msg)
                          ELSE failure("Unexpected error: " \o out[2].msg)

\* resolve_ens_name has reported an ENSException of the collaborator
C14_Witness ==
    /\ Handled
    /\ Resolves
    /\ HasEnvelope
    /\ Len(last.calls) = 1
    /\ last.calls[1].out = Raises(Exc("ENSException", "resolver not set"))
    /\ "error" \in DOMAIN Envelope[2]
    /\ Envelope[2].error = Str("ENS error: resolver not set")

(***************************************************************************)
(* C15  The message loop is strictly one-at-a-time.  A line is read only   *)
(* when the loop is at its top, and by then every line read before has     *)
(* its response on the output and its collaborator calls are over; the     *)
(* read itself writes nothing.  So in every state at most one line is read *)
(* and not yet answered, and the responses on the output answer lines      *)
(* 1, 2, 3, ... in that order.                                             *)
(***************************************************************************)
C15_OneAtATime ==
    /\ [][nread' # nread =>
            /\ pc = "reading"
            /\ pc' = "handling"
            /\ nread' = nread + 1
            /\ Len(output) = nread
            /\ output' = output
            /\ last'.calls = <<>>]_vars
    /\ [](/\ nread - Len(output) \in {0, 1}
          /\ \A i \in DOMAIN output : output[i] = i
          /\ (pc = "handling" => Len(output) = nread - 1))

\* the second line has been read and is being handled, with the response
\* to the first line on the output
C15_Witness ==
    /\ pc = "handling"
    /\ nread = 2
    /\ output = <<1>>
    /\ last.serial = 2
    /\ last.calls = <<>>

(***************************************************************************)
(* C16  With a finite input and collaborator calls that all return or      *)
(* throw, run_stdio, once it waits for its first line, eventually reads    *)
(* the end of the stream and stops there without error, with one response  *)
(* written for every line read before it and none for the end of the       *)
(* stream itself.                                                          *)
(***************************************************************************)
C16_ReachesEndOfStream ==
    (pc = "reading") ~>
        (/\ pc = "stopped"
         /\ stop = "eof"
         /\ line = EndOfStream
         /\ Len(output) = nread)

\* the loop is serving: waiting for a line or handling one
Serving == pc \in {"reading", "handling"}

(***************************************************************************)
(* C17  Once the message loop has begun, it leaves its serving state only  *)
(* on the end of the stream or on an interrupt: no step leaves it because  *)
(* of the content of a line or of an exception raised while a request is   *)
(* handled.                                                                *)
(***************************************************************************)
C17_NothingFatal ==
    [][(Serving /\ ~Serving') => stop' \in {"eof", "interrupt"}]_vars

(***************************************************************************)
(* C18  Shutdown is cooperative: the loop stops on an interrupt only from  *)
(* the top of the loop, while it waits for the next line, so every line    *)
(* read by then has its response on the output and no request is aborted   *)
(* during a call; and the step that stops the loop writes nothing.         *)
(***************************************************************************)
C18_CooperativeShutdown ==
    [][(stop # "interrupt" /\ stop' = "interrupt") =>
          /\ pc = "reading"
          /\ Len(output) = nread
          /\ output' = output]_vars

(***************************************************************************)
(* C19  No partial server starts.  When the connectivity check fails or    *)
(* the initialization throws, construction raises and the process is       *)
(* aborted for good: no line is ever read and no response is ever          *)
(* written.  Whenever the loop serves or has served, both collaborator     *)
(* handles are the ones established before the first read, and no step    *)
(* after startup changes them.                                             *)
(***************************************************************************)
C19_NoPartialStart ==
    /\ [](pc = "aborted" =>
            /\ ens = None
            /\ nread = 0
            /\ line = NoLine
            /\ output = <<>>)
    /\ [](pc \in {"reading", "handling", "stopped"} =>
            /\ w3 = Handle("w3")
            /\ ens = Handle("ens"))
    /\ [][pc = "aborted" => pc' = "aborted"]_vars
    /\ [][pc # "start" => (w3' = w3 /\ ens' = ens)]_vars

\* the connectivity check has failed with lines waiting on stdin
C19_Witness ==
    /\ pc = "aborted"
    /\ w3 = Handle("w3")
    /\ ens = None
    /\ remaining > 0
    /\ nread = 0

\* the params and arguments of the request of loop iteration x, as the
\* router reads them
ParamsOf(x) == dict_get(x.line[2], "params", EmptyDict)
ArgumentsOf(x) == dict_get(ParamsOf(x), "arguments", EmptyDict)

\* iteration x handled a get_ens_text_record call with a text name and key
IsTextCall(x) ==
    /\ x.line[1] = "json"
    /\ IsDict(x.line[2])
    /\ dict_get(x.line[2], "method", None) = Str("tools/call")
    /\ IsDict(ParamsOf(x))
    /\ dict_get(ParamsOf(x), "name", None) = Str("get_ens_text_record")
    /\ HasKey(ArgumentsOf(x), "ens_name")
    /\ HasKey(ArgumentsOf(x), "key")
    /\ IsStr(ArgumentsOf(x)[2].ens_name)
    /\ IsStr(ArgumentsOf(x)[2].key)

\* iteration x printed a result whose first content block is a text, and
\* that text parsed as JSON
HasEnvelopeOf(x) ==
    /\ Len(x.printed) = 1
    /\ "result" \in DOMAIN x.printed[1][2]
    /\ x.printed[1][2].result[1] = "obj"
    /\ "content" \in DOMAIN x.printed[1][2].result[2]
    /\ Len(x.printed[1][2].result[2].content[2]) >= 1
    /\ x.printed[1][2].result[2].content[2][1][2].text[1] = "text"
EnvelopeOf(x) == x.printed[1][2].result[2].content[2][1][2].text[2]

\* key k of payload e, or that e has no such key
Field(e, k) == IF k \in DOMAIN e[2] THEN <<"some", e[2][k]>> ELSE <<"absent">>

\* the first and the last iteration asked for the same text record of the
\* same name, and wherever both asked the collaborator it answered alike
SameTextRecordAgain ==
    /\ Handled
    /\ memo.serial > 0
    /\ last.serial > memo.serial
    /\ IsTextCall(memo)
    /\ IsTextCall(last)
    /\ ArgumentsOf(memo)[2].ens_name = ArgumentsOf(last)[2].ens_name
    /\ ArgumentsOf(memo)[2].key = ArgumentsOf(last)[2].key
    /\ \/ memo.calls = <<>>
       \/ last.calls = <<>>
       \/ memo.calls[1].out = last.calls[1].out

(***************************************************************************)
(* C20  get_ens_text_record is idempotent: two calls with the same name    *)
(* and key, between which the collaborator's answer has not changed and    *)
(* any other requests may have been served, report the same success,      *)
(* ens_name, key and value (and the same error); the server keeps no       *)
(* state that the first call or a request in between could have changed.   *)
(***************************************************************************)
C20_TextRecordIdempotent ==
    SameTextRecordAgain =>
        /\ HasEnvelopeOf(memo)
        /\ HasEnvelopeOf(last)
        /\ memo.calls = last.calls
        /\ \A k \in {"success", "ens_name", "key", "value", "error"} :
              Field(EnvelopeOf(memo), k) = Field(EnvelopeOf(last), k)

\* the third line repeats the text-record request of the first line and is
\* answered with the same value
C20_Witness ==
    /\ SameTextRecordAgain
    /\ memo.serial = 1
    /\ last.serial = 3
    /\ HasEnvelopeOf(last)
    /\ HasEnvelopeOf(memo)
    /\ "value" \in DOMAIN EnvelopeOf(last)[2]
    /\ EnvelopeOf(last)[2].value = Str("https://ab.example")
    /\ EnvelopeOf(memo)[2].value = Str("https://ab.example")

\* the last request is a tools/call whose params are an object that names
\* none of the four operations (or names nothing)
CallsUnknownTool == IsToolsCall /\ IsDict(LastParams) /\ LastTool \notin KnownTools

\* the tool names of the requests, as a text
NameText(v) ==
    CASE v = None -> "None"
      [] v = Num(7) -> "7"
      [] OTHER -> v[2]

\* the last request calls reverse_resolve_address with a text address
Reverses ==
    /\ CallsKnownTool
    /\ LastTool = Str("reverse_resolve_address")
    /\ HasKey(LastArguments, "address")
    /\ IsStr(LastArguments[2].address)

(***************************************************************************)
(* C21  A tools/call whose name is not one of resolve_ens_name,            *)
(* reverse_resolve_address, get_ens_text_record, get_ens_info is answered  *)
(* with a result whose text is the envelope {success: false, error:        *)
(* "Unknown tool: <name>"}, without any collaborator call.  The names are  *)
(* compared for exact equality (a name in another case is unknown), and    *)
(* each of the four names, called with text arguments, reaches its own     *)
(* operation: its collaborator calls are the ones made.                    *)
(***************************************************************************)
C21_UnknownTool ==
    /\ (Handled /\ CallsUnknownTool) =>
          /\ HasEnvelope
          /\ "error" \notin RespKeys
          /\ Envelope = Obj([success |-> Bool(FALSE),
                             error |-> Str("Unknown tool: " \o NameText(LastTool))])
          /\ last.calls = <<>>
    /\ (Handled /\ Resolves) =>
          Len(last.calls) = 1 /\ last.calls[1].fn = "address"
    /\ (Handled /\ Reverses) =>
          Len(last.calls) >= 1 /\ last.calls[1].fn = "is_address"
    /\ (Handled /\ ReadsTextRecord) =>
          Len(last.calls) = 1 /\ last.calls[1].fn = "get_text"
    /\ (Handled /\ AsksInfo) =>
          /\ Len(last.calls) = 10
          /\ last.calls[2].fn = "owner"
          /\ last.calls[3].fn = "resolver"

\* a call of "Resolve_ENS_Name" has been answered as an unknown tool
C21_Witness ==
    /\ Handled
    /\ CallsUnknownTool
    /\ LastTool = Str("Resolve_ENS_Name")
    /\ HasEnvelope
    /\ "error" \in DOMAIN Envelope[2]
    /\ Envelope[2].error = Str("Unknown tool: Resolve_ENS_Name")
    /\ last.calls = <<>>

\* the argument keys each operation subscripts, in the order it does
RequiredKeys(tool) ==
    CASE tool = Str("resolve_ens_name") -> <<"ens_name">>
      [] tool = Str("reverse_resolve_address") -> <<"address">>
      [] tool = Str("get_ens_text_record") -> <<"ens_name", "key">>
      [] tool = Str("get_ens_info") -> <<"ens_name">>

\* the last request calls a known operation with an arguments object that
\* lacks a required key; the first such key
MissingArgument ==
    /\ CallsKnownTool
    /\ IsDict(LastArguments)
    /\ \E i \in DOMAIN RequiredKeys(LastTool) :
          RequiredKeys(LastTool)[i] \notin DOMAIN LastArguments[2]
FirstMissing ==
    LET keys == RequiredKeys(LastTool)
        i == CHOOSE i \in DOMAIN keys :
                /\ keys[i] \notin DOMAIN LastArguments[2]
                /\ \A j \in 1..(i - 1) : keys[j] \in DOMAIN LastArguments[2]
    IN  keys[i]

(***************************************************************************)
(* C22 (as stated)  A tools/call for a known operation whose arguments     *)
(* lack a required key is answered with a top-level error {code, message}  *)
(* and no result, and no collaborator call is made.                        *)
(***************************************************************************)
C22_MissingArgumentIsProtocolError ==
    (Handled /\ MissingArgument) =>
        /\ Len(last.printed) = 1
        /\ "error" \in RespKeys
        /\ "result" \notin RespKeys
        /\ last.calls = <<>>

(***************************************************************************)
(* C22 (amended)  A tools/call for a known operation whose arguments lack  *)
(* a required key is answered with a result and no top-level error.  The   *)
(* text of the result is the envelope {success: false, error: "Error       *)
(* handling tool call: '<key>'"}, naming the first missing key; it has     *)
(* these two keys only, where a domain failure also carries the inputs of  *)
(* the operation.  No collaborator call is made.                           *)
(***************************************************************************)
C22_MissingArgumentIsRouterEnvelope ==
    (Handled /\ MissingArgument) =>
        /\ HasEnvelope
        /\ "error" \notin RespKeys
        /\ Envelope = Obj([success |-> Bool(FALSE),
                           error |-> Str("Error handling tool call: '"
                                         \o FirstMissing \o "'")])
        /\ last.calls = <<>>

\* get_ens_text_record called with a name and no key has been answered
C22_Witness ==
    /\ Handled
    /\ MissingArgument
    /\ LastTool = Str("get_ens_text_record")
    /\ "ens_name" \in DOMAIN LastArguments[2]
    /\ HasEnvelope
    /\ "error" \in DOMAIN Envelope[2]
    /\ Envelope[2].error = Str("Error handling tool call: 'key'")
    /\ last.calls = <<>>

\* exchange x is a tools/list request; the array of descriptors of the result
\* it was answered with, and the names the descriptors carry
ListsTools(x) ==
    /\ x.line[1] = "json"
    /\ IsDict(x.line[2])
    /\ dict_get(x.line[2], "method", None) = Str("tools/list")
ToolsOf(x) == x.printed[1][2].result[2].tools
DescriptorNames(tools) == [i \in DOMAIN tools[2] |-> tools[2][i][2].name]

\* the names handle_tool_call routes on: those of the candidates that it does
\* not answer with "Unknown tool"
CandidateNames ==
    KnownTools \cup {Str("unknown_tool"), Str("Resolve_ENS_Name"), Str("initialize"),
                     Str("tools/list"), Str("tools/call"), Str("")}
RoutedNames ==
    { n \in CandidateNames :
        handle_tool_call(n, EmptyDict, QuietWorld, "2025-01-01T00:00:00").value
            # Obj([success |-> Bool(FALSE), error |-> Str("Unknown tool: " \o n[2])]) }

(***************************************************************************)
(* C23  initialize and tools/list make no collaborator call.  tools/list   *)
(* is answered with a result whose tools array has exactly four            *)
(* descriptors, with pairwise distinct names that are exactly the names    *)
(* tools/call routes on; the array is the same whichever requests were     *)
(* served before, in particular the same as an earlier tools/list of the   *)
(* same run returned.                                                      *)
(***************************************************************************)
C23_StaticTools ==
    /\ (Handled /\ IsRequest /\ LastMethod \in {Str("initialize"), Str("tools/list")}) =>
          /\ last.calls = <<>>
          /\ Len(last.printed) = 1
          /\ "result" \in RespKeys
          /\ "error" \notin RespKeys
    /\ (Handled /\ ListsTools(last)) =>
          LET tools == ToolsOf(last)
              names == DescriptorNames(tools)
          IN  /\ tools[1] = "list"
              /\ Len(tools[2]) = 4
              /\ \A i, j \in DOMAIN names : names[i] = names[j] => i = j
              /\ {names[i] : i \in DOMAIN names} = RoutedNames
              /\ tools = get_available_tools
    /\ (Handled /\ ListsTools(last) /\ memo.serial > 0 /\ ListsTools(memo)) =>
          ToolsOf(last) = ToolsOf(memo)

\* tools/list is served first, another line after it, and tools/list a second
\* time: the second answer has the four descriptors of the first
C23_Witness ==
    /\ Handled
    /\ last.serial = 3
    /\ ListsTools(last)
    /\ memo.serial = 1
    /\ ListsTools(memo)
    /\ output = <<1, 2, 3>>
    /\ Len(ToolsOf(last)[2]) = 4
    /\ ToolsOf(last) = ToolsOf(memo)
    /\ last.calls = <<>>

\* the last request calls reverse_resolve_address with a text whose trimmed
\* form passes the format check; the raw text, its trimmed form, and the
\* checksum forms of the addresses of the model
RawAddress == LastArguments[2].address[2]
WellFormedReverse == Reverses /\ is_address(strip(RawAddress))
ChecksumForms == {"0xAb", "0xcD"}

(***************************************************************************)
(* C24  reverse_resolve_address on a well-formed address makes three       *)
(* collaborator calls in this order: the format check on the trimmed       *)
(* text, the conversion of the trimmed text to checksum form, and one      *)
(* reverse lookup with the checksum form.  When the lookup returns a name  *)
(* the payload is a success carrying the checksum form and the name; when  *)
(* it returns nothing the payload is {success: false, error: "No ENS name  *)
(* found for address: <checksum form>", address: <checksum form>}.         *)
(***************************************************************************)
C24_ReverseCanonical ==
    (Handled /\ WellFormedReverse) =>
        LET trimmed == strip(RawAddress)
            canonical == last.calls[2].out[2]
            found == last.calls[3].out
        IN  /\ Len(last.calls) = 3
            /\ last.calls[1] = Call("is_address", <<Str(trimmed)>>, Returns(Bool(TRUE)))
            /\ last.calls[2].fn = "to_checksum_address"
            /\ last.calls[2].args = <<Str(trimmed)>>
            /\ canonical[2] \in ChecksumForms
            /\ lower(canonical[2]) = lower(trimmed)
            /\ last.calls[3].fn = "name"
            /\ last.calls[3].args = <<canonical>>
            /\ Cardinality({i \in DOMAIN last.calls : last.calls[i].fn = "name"}) = 1
            /\ (found[1] = "ret" /\ py_truthy(found[2])) =>
                  /\ HasEnvelope
                  /\ DOMAIN Envelope[2] = {"success", "address", "ens_name", "timestamp"}
                  /\ Envelope[2].success = Bool(TRUE)
                  /\ Envelope[2].address = canonical
                  /\ Envelope[2].ens_name = found[2]
            /\ (found[1] = "ret" /\ ~py_truthy(found[2])) =>
                  /\ HasEnvelope
                  /\ Envelope = Obj([success |-> Bool(FALSE),
                                     error |-> Str("No ENS name found for address: "
                                                   \o canonical[2]),
                                     address |-> canonical])

\* " 0xAB\n" has been looked up as 0xAb and no name was found: the payload
\* carries 0xAb, which is neither the raw nor the trimmed input
C24_Witness ==
    /\ Handled
    /\ WellFormedReverse
    /\ RawAddress = " 0xAB\n"
    /\ Len(last.calls) = 3
    /\ last.calls[3] = Call("name", <<Str("0xAb")>>, Returns(None))
    /\ HasEnvelope
    /\ "address" \in DOMAIN Envelope[2]
    /\ Envelope[2].address = Str("0xAb")
    /\ Envelope[2].error = Str("No ENS name found for address: 0xAb")

\* what exchange x printed, without the timestamp the clock put in a payload
PrintedOf(x) ==
    IF HasEnvelopeOf(x)
    THEN <<[k \in DOMAIN x.printed[1][2] \ {"result"} |-> x.printed[1][2][k]],
           WithoutTimestamp(EnvelopeOf(x))>>
    ELSE <<x.printed>>

\* the line served last was also the first line of the run, other lines may
\* have been served in between, and the collaborator gave the same answers
\* to the calls of both
SameLineLater ==
    /\ Handled
    /\ memo.serial = 1
    /\ last.serial > 1
    /\ last.line = memo.line
    /\ \A i \in DOMAIN memo.calls \cap DOMAIN last.calls :
          memo.calls[i].out = last.calls[i].out

(***************************************************************************)
(* C25  The response to a line is the same function of the line and of     *)
(* the collaborator's answers whatever was served before it: a line        *)
(* served after other lines (parse failures, tool calls, with or without   *)
(* an initialize) makes the same collaborator calls and is answered with   *)
(* the same response, but for the timestamp of a payload, as when it is    *)
(* the first line a freshly started server reads.  A tools/call or         *)
(* tools/list that is the first line of a run is served like any other,    *)
(* no initialize being required.                                           *)
(***************************************************************************)
C25_NoSessionState ==
    /\ SameLineLater =>
          /\ last.calls = memo.calls
          /\ Len(last.printed) = Len(memo.printed)
          /\ Len(last.printed) = 1 => PrintedOf(last) = PrintedOf(memo)
    /\ (Handled /\ last.serial = 1 /\ IsRequest
          /\ LastMethod \in {Str("tools/list"), Str("tools/call")}) =>
          /\ Len(last.printed) = 1
          /\ "result" \in RespKeys
          /\ "error" \notin RespKeys

\* a resolve_ens_name request that found an address as the first line of the
\* run, with no initialize before it, is served again as the third line with
\* the same answer
C25_Witness ==
    /\ SameLineLater
    /\ last.serial = 3
    /\ output = <<1, 2, 3>>
    /\ IsToolsCall
    /\ LastTool = Str("resolve_ens_name")
    /\ HasEnvelopeOf(memo)
    /\ HasEnvelope
    /\ Envelope[2].success = Bool(TRUE)
    /\ last.calls = memo.calls
    /\ Len(last.calls) = 1
    /\ PrintedOf(last) = PrintedOf(memo)

====
